---------------------------- MODULE Spec2Model ----------------------------
(***************************************************************************)
(* A model of the raster pipeline of src/mz: TiffConverter                 *)
(* (tiff_handler.py) and the batch driver (run.py).                        *)
(*                                                                         *)
(* Seven specifications share the module:                                  *)
(*   SpecPath   path_to_repojected_path applied to bounded strings         *)
(*   SpecMerge  the pixel rule of the merge call of _merge_tiff_list       *)
(*   SpecTiff   a TiffConverter over a small file system                   *)
(*   Spec       the batch: Pool(5).starmap(process_project_date, units)    *)
(*   FairSpec   Spec with the pool and the external calls making progress  *)
(*   SpecCores  n_cores for the values os.cpu_count() may return           *)
(*   SpecList   the listing of the buckets that builds the units           *)
(* Each specification moves its own variables and leaves the others at     *)
(* their idle values.                                                      *)
(***************************************************************************)
EXTENDS Integers, Sequences, FiniteSets, TLC

VARIABLES
    \* SpecPath
    p_path, p_crs, p_dest,
    \* SpecMerge
    m_paths, m_dest, m_next, m_pc,
    \* SpecTiff
    fs,        \* the file system: path key -> node
    t_obj,     \* the TiffConverter the last constructor call produced, or NoObj
    t_pc,      \* "idle", or "reproject" inside reproject_merge
    t_dst,     \* dst_crs of the reproject_merge in progress
    t_i,       \* index of the next tile of the loop of _reporject_raster_files
    t_base,    \* len(reporjected_tiff_paths) when the loop started
    t_err,     \* the exception the last call raised, or "none"
    t_runs,    \* calls made on converters: reproject_merge and direct reproject_raster
    t_ctors,   \* constructor calls made
    t_new,     \* the last constructor call: its argument and the exception raised
    t_last,    \* the last reproject_raster call: arguments, outcome, destination before and after
    t_merge,   \* the last _merge_tiff_list call: arguments and outcome
    \* Spec
    b_env,     \* the names, of date_key and clip_image_to_project, that resolve at run time
    b_n,       \* len(to_process_project_dates)
    main_pc,   \* the parent: "starmap", "raised" or "done"
    main_err,  \* the exception starmap re-raised in the parent
    c_state,   \* per chunk of the map: "queued", "running", "ok", "failed"
    u_pc,      \* per unit: where process_project_date is
    u_dir,     \* per unit: the local working directory exists
    u_art,     \* per unit: the artifact (1..3) whose upload call is next or running
    u_tries,   \* per unit: tries made so far by the running upload call
    u_failed,  \* per unit: the artifacts whose upload call saw every try fail
    u_up,      \* per unit: the artifacts uploaded
    u_err,     \* per unit: the exception that left process_project_date
    u_steps,   \* per unit: the steps performed, in order
    u_saw,     \* per unit: the units that had exhausted an upload when it started
    log,       \* the log records written
    \* SpecCores
    n_cpu,     \* what os.cpu_count() returns: a count, or None
    n_free,    \* the argument free
    n_called,  \* n_cores has returned
    n_ret,     \* the value it returned
    \* SpecList
    s_raw,          \* the object keys of the source bucket
    s_dest,         \* the object keys of the destination bucket
    s_pc,           \* where the main block is
    s_downloaded,   \* downloaded_project_dates
    s_processed,    \* processed_project_dates
    s_to_process,   \* to_process_project_dates
    s_submitted     \* the iterable handed to p.starmap

varsPath == <<p_path, p_crs, p_dest>>

varsMerge == <<m_paths, m_dest, m_next, m_pc>>

varsTiff ==
    <<fs, t_obj, t_pc, t_dst, t_i, t_base, t_err, t_runs, t_ctors, t_new, t_last, t_merge>>

varsRun ==
    <<b_env, b_n, main_pc, main_err, c_state, u_pc, u_dir, u_art, u_tries, u_failed,
      u_up, u_err, u_steps, u_saw, log>>

varsCores == <<n_cpu, n_free, n_called, n_ret>>

varsList ==
    <<s_raw, s_dest, s_pc, s_downloaded, s_processed, s_to_process, s_submitted>>

(***************************************************************************)
(* Strings.  A Python str is a sequence of one-character strings, so that  *)
(* split, join and filter are computed character by character.             *)
(***************************************************************************)
Slash == "/"

Dot == "."

\* str.isalnum on one character: the letters and digits the model writes.
Alnum ==
    {"a", "b", "c", "d", "f", "i", "n", "s", "t", "x", "h", "e",
     "E", "P", "S", "G", "0", "1", "2", "3", "4", "5", "6", "7", "8", "9"}

\* filter(str.isalnum, s), joined with "".
RECURSIVE FilterAlnum(_)
FilterAlnum(s) ==
    IF s = <<>> THEN <<>>
    ELSE (IF Head(s) \in Alnum THEN <<Head(s)>> ELSE <<>>) \o FilterAlnum(Tail(s))

\* s.split(sep): the parts between the separators; no separator gives [s].
RECURSIVE Split(_, _)
Split(s, sep) ==
    IF \A i \in 1..Len(s) : s[i] # sep THEN <<s>>
    ELSE LET i == CHOOSE k \in 1..Len(s) :
                      s[k] = sep /\ \A j \in 1..(k - 1) : s[j] # sep
         IN  <<SubSeq(s, 1, i - 1)>> \o Split(SubSeq(s, i + 1, Len(s)), sep)

\* sep.join(parts); the empty list joins to the empty string.
RECURSIVE Join(_, _)
Join(parts, sep) ==
    IF parts = <<>> THEN <<>>
    ELSE IF Len(parts) = 1 THEN parts[1]
    ELSE parts[1] \o <<sep>> \o Join(Tail(parts), sep)

Front(s) == SubSeq(s, 1, Len(s) - 1)

Last(s) == s[Len(s)]

\* The mutant of path_to_repojected_path: the CRS name is put in front of
\* the filename, in the source directory, instead of naming a subdirectory.
path_to_repojected_path_flat(path, crs_name) ==
    LET name       == FilterAlnum(crs_name)
        split_path == Split(path, Slash)
    IN  Join(Front(split_path), Slash) \o <<Slash>> \o name \o Last(split_path)

\* TiffConverter.path_to_repojected_path
path_to_repojected_path(path, crs_name) ==
    LET name       == FilterAlnum(crs_name)
        split_path == Split(path, Slash)
    IN  Join(Front(split_path), Slash) \o <<Slash>> \o name
            \o <<Slash>> \o Last(split_path)

(***************************************************************************)
(* SpecPath: path_to_repojected_path on every path and CRS name of the     *)
(* bounded alphabets.                                                      *)
(***************************************************************************)
MaxPathLen == 3

MaxCrsLen == 2

PathChars == {Slash, "a", "b"}

CrsChars == {"E", ":", "3"}

SeqsUpTo(S, n) == UNION {[1..k -> S] : k \in 0..n}

NoDest == <<"?">>

PathIdle == p_path = <<>> /\ p_crs = <<>> /\ p_dest = NoDest

InitPath ==
    /\ p_path \in SeqsUpTo(PathChars, MaxPathLen) \ {<<>>}
    /\ p_crs \in SeqsUpTo(CrsChars, MaxCrsLen)
    /\ p_dest = NoDest

\* One call path_to_repojected_path(p_path, p_crs).
CallPath ==
    /\ p_dest = NoDest
    /\ p_dest' = path_to_repojected_path(p_path, p_crs)
    /\ UNCHANGED <<p_path, p_crs, varsMerge, varsTiff, varsRun, varsCores, varsList>>

(***************************************************************************)
(* SpecMerge: rasterio.merge.merge as _merge_tiff_list calls it            *)
(* (no method argument, so the library's default "first").  A tile is a    *)
(* function from the locations of the mosaic grid to a sample, NoData      *)
(* where it has no valid value (outside its footprint, or masked).         *)
(***************************************************************************)
MaxTiles == 2

NLoc == 2

MaxVal == 2

NoData == 0

Loc == 1..NLoc

Sample == NoData..MaxVal

Tile == [Loc -> Sample]

MergeIdle ==
    /\ m_paths = <<>>
    /\ m_dest = [l \in Loc |-> NoData]
    /\ m_next = 0
    /\ m_pc = "idle"

InitMerge ==
    /\ m_paths \in SeqsUpTo(Tile, MaxTiles)
    /\ m_dest = [l \in Loc |-> NoData]
    /\ m_next = 0
    /\ m_pc = "call"

\* The mutant of CopyTo: the later tile overwrites (method "last").
CopyToLast(region, temp) ==
    [l \in Loc |-> IF temp[l] # NoData THEN temp[l] ELSE region[l]]

\* The copy of one tile into the mosaic: only where the mosaic is still
\* empty and the tile is valid.
CopyTo(region, temp) ==
    [l \in Loc |-> IF region[l] = NoData /\ temp[l] # NoData
                   THEN temp[l] ELSE region[l]]

\* _merge_tiff_list(paths), line 120: paths[0] of an empty list raises.
MergeCall ==
    /\ m_pc = "call"
    /\ IF m_paths = <<>>
       THEN m_pc' = "IndexError" /\ m_next' = m_next
       ELSE m_pc' = "copy" /\ m_next' = 1
    /\ UNCHANGED <<m_paths, m_dest, varsPath, varsTiff, varsRun, varsCores, varsList>>

\* The merge loop: the tiles are copied in the order of the list.
MergeCopy ==
    /\ m_pc = "copy"
    /\ m_next <= Len(m_paths)
    /\ m_dest' = CopyTo(m_dest, m_paths[m_next])
    /\ m_next' = m_next + 1
    /\ UNCHANGED <<m_paths, m_pc, varsPath, varsTiff, varsRun, varsCores, varsList>>

\* The mosaic is written to stitched.tif once every tile is copied.
MergeWrite ==
    /\ m_pc = "copy"
    /\ m_next > Len(m_paths)
    /\ m_pc' = "written"
    /\ UNCHANGED <<m_paths, m_dest, m_next, varsPath, varsTiff, varsRun, varsCores, varsList>>

(***************************************************************************)
(* SpecTiff: the file system and one TiffConverter.                        *)
(***************************************************************************)
\* File and directory names.
DirD == <<"d">>

NameA == <<"a", ".", "t", "i", "f", "f">>

NameB == <<"b", ".", "t", "i", "f", "f">>

\* A regular file whose extension is tif, not tiff.
NameN == <<"n", ".", "t", "i", "f">>

\* A subdirectory whose name ends in .tiff.
NameS == <<"s", ".", "t", "i", "f", "f">>

NameC == <<"c", ".", "t", "i", "f", "f">>

Stitched == <<"s", "t", "i", "t", "c", "h", "e", "d", ".", "t", "i", "f">>

TiffExt == <<"t", "i", "f", "f">>

EPSG3857 == <<"E", "P", "S", "G", ":", "3", "8", "5", "7">>

EPSG4326 == <<"E", "P", "S", "G", ":", "4", "3", "2", "6">>

CRSs == {EPSG3857, EPSG4326}

NoCrs == <<>>

\* The path key of a path string: its non-empty segments, after a root
\* marker when the path is absolute.
Norm(path) ==
    (IF path # <<>> /\ path[1] = Slash THEN <<<<Slash>>>> ELSE <<>>)
        \o SelectSeq(Split(path, Slash), LAMBDA seg : seg # <<>>)

DirNode == [kind |-> "dir", crs |-> NoCrs, bounds |-> "none", complete |-> TRUE]

OtherNode == [kind |-> "other", crs |-> NoCrs, bounds |-> "none", complete |-> TRUE]

RasterNode(c, b, w) == [kind |-> "raster", crs |-> c, bounds |-> b, complete |-> w]

Absent == [kind |-> "absent", crs |-> NoCrs, bounds |-> "none", complete |-> FALSE]

NodeAt(f, key) == IF key \in DOMAIN f THEN f[key] ELSE Absent

Put(f, key, node) ==
    [k \in DOMAIN f \cup {key} |-> IF k = key THEN node ELSE f[k]]

Prefixes(key) == {SubSeq(key, 1, n) : n \in 1..Len(key)}

\* Path(p).mkdir(parents=True, exist_ok=True)
MkdirP(f, key) ==
    [k \in DOMAIN f \cup Prefixes(key) |-> IF k \in DOMAIN f THEN f[k] ELSE DirNode]

\* os.listdir(path): the names directly in the directory.
ListDir(f, path) ==
    {k[Len(k)] : k \in {x \in DOMAIN f : Len(x) = Len(Norm(path)) + 1
                                          /\ Front(x) = Norm(path)}}

\* os.path.join(path, name)
OsJoin(path, name) ==
    IF path = <<>> \/ Last(path) = Slash THEN path \o name
    ELSE path \o <<Slash>> \o name

\* The mutant of IsFile: the isfile test of line 30 is dropped.
IsFileAny(f, path) == NodeAt(f, Norm(path)).kind # "absent"

\* os.path.isfile
IsFile(f, path) == NodeAt(f, Norm(path)).kind \in {"raster", "other"}

\* rasterio.open(path) succeeds
Readable(f, path) == NodeAt(f, Norm(path)).kind = "raster"

Perms(S) ==
    {q \in [1..Cardinality(S) -> S] : \A i, j \in 1..Cardinality(S) : q[i] = q[j] => i = j}

Range(q) == {q[i] : i \in 1..Len(q)}

NoObj == [path |-> <<>>, made |-> FALSE, all_files |-> <<>>, tiff_files |-> <<>>,
          reporjected_tiff_paths |-> <<>>, CRS_list |-> <<>>, CRS_set |-> <<>>,
          dst_path |-> <<>>]

\* Line 31: i.split(".")[-1] == "tiff"
IsTiff(name) == Last(Split(name, Dot)) = TiffExt

\* add_path(files, True)
add_path(path, files) == [i \in 1..Len(files) |-> path \o files[i]]

\* The contents a.tiff and b.tiff start with: a raster in one of the two
\* CRSs, a raster whose bounds are degenerate, a file that is no raster.
ContentsA ==
    {Absent, RasterNode(EPSG3857, "ok", TRUE), RasterNode(EPSG4326, "ok", TRUE),
     RasterNode(EPSG4326, "degenerate", TRUE), OtherNode}

ContentsB == {Absent, RasterNode(EPSG3857, "ok", TRUE)}

\* n.tif is there or not.
ContentsN == {Absent, OtherNode}

InitFs(a, b, n) ==
    LET base  == (<<DirD>> :> DirNode) @@ (<<DirD, NameS>> :> DirNode)
        withA == IF a = Absent THEN base ELSE Put(base, <<DirD, NameA>>, a)
        withB == IF b = Absent THEN withA ELSE Put(withA, <<DirD, NameB>>, b)
    IN  IF n = Absent THEN withB ELSE Put(withB, <<DirD, NameN>>, n)

NoCtor == [path |-> <<>>, err |-> "nocall"]

NoCall == [path |-> <<>>, dst |-> NoCrs, dest |-> <<>>, err |-> "nocall",
           before |-> Absent, after |-> Absent]

NoMerge == [paths |-> <<>>, err |-> "nocall", out |-> <<>>, fsSame |-> TRUE]

MaxRuns == 2

MaxCtors == 2

TiffIdle ==
    /\ fs = <<>>
    /\ t_obj = NoObj
    /\ t_pc = "idle"
    /\ t_dst = NoCrs
    /\ t_i = 0
    /\ t_base = 0
    /\ t_err = "none"
    /\ t_runs = 0
    /\ t_ctors = 0
    /\ t_new = NoCtor
    /\ t_last = NoCall
    /\ t_merge = NoMerge

InitTiff ==
    /\ \E a \in ContentsA, b \in ContentsB, n \in ContentsN : fs = InitFs(a, b, n)
    /\ t_obj = NoObj
    /\ t_pc = "idle"
    /\ t_dst = NoCrs
    /\ t_i = 0
    /\ t_base = 0
    /\ t_err = "none"
    /\ t_runs = 0
    /\ t_ctors = 0
    /\ t_new = NoCtor
    /\ t_last = NoCall
    /\ t_merge = NoMerge

\* The paths a caller builds a converter on: the directory with its
\* trailing slash, the directory without it, and a directory that is not there.
CtorPaths == {DirD \o <<Slash>>, DirD, <<"x", Slash>>}

\* The mutant of dst_meta: kwargs["crs"] = dst_crs is forgotten, the
\* destination keeps the source's CRS.
dst_meta_keep_crs(src, dst_crs, whole) == RasterNode(src.crs, "ok", whole)

\* Lines 88-92 and 96: the destination's metadata is the source's with the
\* new transform, dimensions and CRS.
dst_meta(src, dst_crs, whole) == RasterNode(dst_crs, "ok", whole)

\* The mutant of reproject_raster: the destination is opened for writing
\* before the transform is computed.
reproject_raster_early_open(f, path, dst_crs, late) ==
    LET dest == path_to_repojected_path(path, dst_crs)
        f1   == MkdirP(f, Norm(Join(Front(Split(dest, Slash)), Slash)))
        src  == NodeAt(f1, Norm(path))
    IN  IF ~Readable(f1, path)
        THEN [err |-> "RasterioIOError", fs |-> f1, dest |-> dest]
        ELSE IF src.bounds = "degenerate"
        THEN [err |-> "TransformError",
              fs |-> Put(f1, Norm(dest), dst_meta(src, dst_crs, FALSE)), dest |-> dest]
        ELSE IF late
        THEN [err |-> "WriteError",
              fs |-> Put(f1, Norm(dest), dst_meta(src, dst_crs, FALSE)), dest |-> dest]
        ELSE [err |-> "none",
              fs |-> Put(f1, Norm(dest), dst_meta(src, dst_crs, TRUE)), dest |-> dest]

\* TiffConverter.reproject_raster on file system f, without the append of
\* line 81 (the callers below make it).  late: reproject or dst.write fails
\* after the destination was opened.  The result is the exception raised
\* ("none": the call returned), the file system afterwards and dest_path.
reproject_raster(f, path, dst_crs, late) ==
    LET dest == path_to_repojected_path(path, dst_crs)
        \* line 82, ensure_path(dest_path, True)
        f1   == MkdirP(f, Norm(Join(Front(Split(dest, Slash)), Slash)))
        src  == NodeAt(f1, Norm(path))
    IN  \* line 84, rasterio.open(path)
        IF ~Readable(f1, path)
        THEN [err |-> "RasterioIOError", fs |-> f1, dest |-> dest]
        \* line 85, calculate_default_transform
        ELSE IF src.bounds = "degenerate"
        THEN [err |-> "TransformError", fs |-> f1, dest |-> dest]
        \* line 96 creates the destination; lines 98-110 fail
        ELSE IF late
        THEN [err |-> "WriteError",
              fs |-> Put(f1, Norm(dest), dst_meta(src, dst_crs, FALSE)), dest |-> dest]
        ELSE [err |-> "none",
              fs |-> Put(f1, Norm(dest), dst_meta(src, dst_crs, TRUE)), dest |-> dest]

\* The mutant of merge_tiff_list: the output directory does not come from
\* paths[0], and an empty list writes an empty mosaic.
merge_tiff_list_no_index(f, old_dst, paths) ==
    LET dst_file == Stitched
    IN  IF \E i \in 1..Len(paths) : ~Readable(f, paths[i])
        THEN [err |-> "RasterioIOError", fs |-> f, dst_path |-> <<>>, out |-> <<>>]
        ELSE [err |-> "none", fs |-> Put(f, Norm(dst_file), RasterNode(NoCrs, "ok", TRUE)),
              dst_path |-> <<>>, out |-> dst_file]

\* TiffConverter._merge_tiff_list on file system f; old_dst is self.dst_path
\* before the call.
merge_tiff_list(f, old_dst, paths) ==
    \* line 120, paths[0]
    IF paths = <<>>
    THEN [err |-> "IndexError", fs |-> f, dst_path |-> old_dst, out |-> <<>>]
    ELSE LET dst_path == Join(Front(Split(paths[1], Slash)), Slash)
             dst_file == OsJoin(dst_path, Stitched)
         IN  \* rasterio.merge.merge opens every path before it writes
             IF \E i \in 1..Len(paths) : ~Readable(f, paths[i])
             THEN [err |-> "RasterioIOError", fs |-> f, dst_path |-> dst_path, out |-> <<>>]
             ELSE [err |-> "none",
                   fs |-> Put(f, Norm(dst_file),
                              RasterNode(NodeAt(f, Norm(paths[1])).crs, "ok", TRUE)),
                   dst_path |-> dst_path, out |-> dst_file]

\* The mutant of crs_set: list(self.CRS_list), without the set.
crs_set_keep_duplicates(crs_list) == {crs_list}

\* _crs_set, line 57: list(set(self.CRS_list)), in any of the orders the set
\* may be iterated in.
crs_set(crs_list) == Perms(Range(crs_list))

\* TiffConverter(path): lines 29-34.  The order of os.listdir is arbitrary,
\* and so is the order of list(set(...)).
Construct(path) ==
    /\ t_pc = "idle"
    /\ t_ctors < MaxCtors
    /\ t_ctors' = t_ctors + 1
    /\ t_last' = NoCall
    /\ t_merge' = NoMerge
    /\ IF NodeAt(fs, Norm(path)).kind # "dir"
       THEN t_obj' = NoObj /\ t_err' = "FileNotFoundError"
                /\ t_new' = [path |-> path, err |-> "FileNotFoundError"]
       ELSE \E all \in Perms({n \in ListDir(fs, path) : IsFile(fs, OsJoin(path, n))}) :
              LET tiffs == SelectSeq(all, IsTiff)
                  paths == add_path(path, tiffs)
                  crsl  == [i \in 1..Len(tiffs) |-> NodeAt(fs, Norm(paths[i])).crs]
              IN  IF \E i \in 1..Len(paths) : ~Readable(fs, paths[i])
                  THEN t_obj' = NoObj /\ t_err' = "RasterioIOError"
                           /\ t_new' = [path |-> path, err |-> "RasterioIOError"]
                  ELSE \E cs \in crs_set(crsl) :
                         /\ t_obj' = [path |-> path, made |-> TRUE, all_files |-> all,
                                      tiff_files |-> tiffs,
                                      reporjected_tiff_paths |-> <<>>,
                                      CRS_list |-> crsl, CRS_set |-> cs,
                                      dst_path |-> <<>>]
                         /\ t_err' = "none"
                         /\ t_new' = [path |-> path, err |-> "none"]
    /\ UNCHANGED <<fs, t_pc, t_dst, t_i, t_base, t_runs>>
    /\ UNCHANGED <<varsPath, varsMerge, varsRun, varsCores, varsList>>

TilePaths == add_path(t_obj.path, t_obj.tiff_files)

\* The mutant of loop_exhausted: the loop is left after its first tile.
loop_exhausted_early(i, files) == i > Len(files) \/ i > 1

\* Line 115: the for loop over the tile paths has no tile left; i is the
\* index of the next tile.
loop_exhausted(i, files) == i > Len(files)

\* reproject_merge(dst_crs) is called: line 137 enters _reporject_raster_files.
ReprojectMerge(dst_crs) ==
    /\ t_pc = "idle"
    /\ t_obj.made
    /\ t_runs < MaxRuns
    /\ t_pc' = "reproject"
    /\ t_dst' = dst_crs
    /\ t_i' = 1
    /\ t_base' = Len(t_obj.reporjected_tiff_paths)
    /\ t_err' = "none"
    /\ t_runs' = t_runs + 1
    /\ t_last' = NoCall
    /\ t_merge' = NoMerge
    /\ UNCHANGED <<fs, t_obj, t_ctors, t_new>>
    /\ UNCHANGED <<varsPath, varsMerge, varsRun, varsCores, varsList>>

\* The mutant of append_dest: the path is appended when the call returned.
append_dest_on_success(paths, r) == IF r.err = "none" THEN Append(paths, r.dest) ELSE paths

\* Line 81: self.reporjected_tiff_paths.append(dest_path), made before the
\* source is opened, so whatever the outcome r of the call.
append_dest(paths, r) == Append(paths, r.dest)

CallRecord(path, dst_crs, r) ==
    [path |-> path, dst |-> dst_crs, dest |-> r.dest, err |-> r.err,
     before |-> NodeAt(fs, Norm(r.dest)), after |-> NodeAt(r.fs, Norm(r.dest))]

\* One iteration of the loop of _reporject_raster_files: reproject_raster on
\* the next tile.  An exception leaves reproject_merge.
ReprojectNext ==
    /\ t_pc = "reproject"
    /\ ~loop_exhausted(t_i, t_obj.tiff_files)
    /\ \E late \in BOOLEAN :
         LET path == TilePaths[t_i]
             r    == reproject_raster(fs, path, t_dst, late)
         IN  /\ fs' = r.fs
             /\ t_obj' = [t_obj EXCEPT !.reporjected_tiff_paths = append_dest(@, r)]
             /\ t_last' = CallRecord(path, t_dst, r)
             /\ t_err' = r.err
             /\ IF r.err = "none"
                THEN t_i' = t_i + 1 /\ t_pc' = t_pc
                ELSE t_i' = t_i /\ t_pc' = "idle"
    /\ UNCHANGED <<t_dst, t_base, t_runs, t_ctors, t_new, t_merge>>
    /\ UNCHANGED <<varsPath, varsMerge, varsRun, varsCores, varsList>>

MergeRecord(paths, r) ==
    [paths |-> paths, err |-> r.err, out |-> r.out, fsSame |-> (r.fs = fs)]

\* Line 140: the loop is over, _merge_tiff_list(self.reporjected_tiff_paths).
MergeStep ==
    /\ t_pc = "reproject"
    /\ loop_exhausted(t_i, t_obj.tiff_files)
    /\ LET paths == t_obj.reporjected_tiff_paths
           r     == merge_tiff_list(fs, t_obj.dst_path, paths)
       IN  /\ fs' = r.fs
           /\ t_obj' = [t_obj EXCEPT !.dst_path = r.dst_path]
           /\ t_merge' = MergeRecord(paths, r)
           /\ t_err' = r.err
    /\ t_pc' = "idle"
    /\ UNCHANGED <<t_dst, t_i, t_base, t_runs, t_ctors, t_new, t_last>>
    /\ UNCHANGED <<varsPath, varsMerge, varsRun, varsCores, varsList>>

MissingPath == DirD \o <<Slash>> \o NameC

\* A caller's own call of reproject_raster(path, dst_crs); Next makes it with
\* a path at which there is no file.
DirectReproject(path, dst_crs) ==
    /\ t_pc = "idle"
    /\ t_obj.made
    /\ t_runs < MaxRuns
    /\ \E late \in BOOLEAN :
         LET r == reproject_raster(fs, path, dst_crs, late)
         IN  /\ fs' = r.fs
             /\ t_obj' = [t_obj EXCEPT !.reporjected_tiff_paths = append_dest(@, r)]
             /\ t_last' = CallRecord(path, dst_crs, r)
             /\ t_err' = r.err
    /\ t_runs' = t_runs + 1
    /\ t_merge' = NoMerge
    /\ UNCHANGED <<t_pc, t_dst, t_i, t_base, t_ctors, t_new>>
    /\ UNCHANGED <<varsPath, varsMerge, varsRun, varsCores, varsList>>

\* A caller's own call of _merge_tiff_list(paths); Next makes it with the
\* empty list.
DirectMerge(paths) ==
    /\ t_pc = "idle"
    /\ t_obj.made
    /\ LET r == merge_tiff_list(fs, t_obj.dst_path, paths)
       IN  /\ fs' = r.fs
           /\ t_obj' = [t_obj EXCEPT !.dst_path = r.dst_path]
           /\ t_merge' = MergeRecord(paths, r)
           /\ t_err' = r.err
    /\ t_last' = NoCall
    /\ UNCHANGED <<t_pc, t_dst, t_i, t_base, t_runs, t_ctors, t_new>>
    /\ UNCHANGED <<varsPath, varsMerge, varsRun, varsCores, varsList>>

(***************************************************************************)
(* Spec: the batch of run.py.  The parent maps process_project_date over   *)
(* to_process_project_dates with Pool(5).starmap; a unit is one            *)
(* (project, date) pair, named by its position in the list.                *)
(*                                                                         *)
(* Line 89 reads the global date_key (the parameter is dated_key) and      *)
(* line 107 calls TiffConverter.clip_image_to_project.  Both names are     *)
(* looked up when the line runs.  run.py binds no date_key and             *)
(* tiff_handler.py has the method commented out, so as the files stand     *)
(* b_env = {} and line 89 raises NameError.  b_env is drawn from every     *)
(* subset so that the lines after 89 and after 107 are covered too.        *)
(***************************************************************************)
MaxUnits == 2

PoolSize == 5

Tries == 3

NArtifacts == 3

Units == 1..b_n

Artifacts == 1..NArtifacts

\* Pool._map_async: chunksize = ceil(len / (4 * processes)).
ChunkSize(n) ==
    LET q == n \div (PoolSize * 4)
    IN  IF n % (PoolSize * 4) = 0 THEN q ELSE q + 1

NChunks(n) == IF n = 0 THEN 0 ELSE (n + ChunkSize(n) - 1) \div ChunkSize(n)

ChunkOf(u) == ((u - 1) \div ChunkSize(b_n)) + 1

FirstOf(c) == (c - 1) * ChunkSize(b_n) + 1

LastOf(c) == IF c * ChunkSize(b_n) < b_n THEN c * ChunkSize(b_n) ELSE b_n

Names == {"date_key", "clip_image_to_project"}

RunIdle ==
    /\ b_env = {}
    /\ b_n = 0
    /\ main_pc = "idle"
    /\ main_err = "none"
    /\ c_state = <<>>
    /\ u_pc = <<>>
    /\ u_dir = <<>>
    /\ u_art = <<>>
    /\ u_tries = <<>>
    /\ u_failed = <<>>
    /\ u_up = <<>>
    /\ u_err = <<>>
    /\ u_steps = <<>>
    /\ u_saw = <<>>
    /\ log = {}

\* Line 152 is reached: the list is built and the map is submitted.
InitRun ==
    /\ b_env \in SUBSET Names
    /\ b_n \in 0..MaxUnits
    /\ main_pc = "starmap"
    /\ main_err = "none"
    /\ c_state = [c \in 1..NChunks(b_n) |-> "queued"]
    /\ u_pc = [u \in Units |-> "queued"]
    /\ u_dir \in [Units -> BOOLEAN]
    /\ u_art = [u \in Units |-> 0]
    /\ u_tries = [u \in Units |-> 0]
    /\ u_failed = [u \in Units |-> {}]
    /\ u_up = [u \in Units |-> {}]
    /\ u_err = [u \in Units |-> "none"]
    /\ u_steps = [u \in Units |-> <<>>]
    /\ u_saw = [u \in Units |-> {}]
    /\ log = {}

LogRec(msg, u, a) == [msg |-> msg, unit |-> u, art |-> a]

\* The units one of whose upload calls has ended with every try failed.
Exhausted(u) == u_failed[u] # {}

\* A worker takes the next chunk off the task queue and calls
\* process_project_date on its first unit.
TakeChunk(c) ==
    /\ main_pc = "starmap"
    /\ c_state[c] = "queued"
    /\ \A d \in 1..(c - 1) : c_state[d] # "queued"
    /\ Cardinality({d \in DOMAIN c_state : c_state[d] = "running"}) < PoolSize
    /\ c_state' = [c_state EXCEPT ![c] = "running"]
    /\ u_pc' = [u_pc EXCEPT ![FirstOf(c)] = "l89"]
    /\ u_saw' = [u_saw EXCEPT ![FirstOf(c)] = {v \in Units : Exhausted(v)}]
    /\ UNCHANGED <<b_env, b_n, main_pc, main_err, u_dir, u_art, u_tries, u_failed, u_up,
                   u_err, u_steps, log>>
    /\ UNCHANGED <<varsPath, varsMerge, varsTiff, varsCores, varsList>>

\* process_project_date returns for unit u: mapstar calls it on the next
\* unit of the chunk, or the worker puts the chunk's result.
Return(u) ==
    IF u < LastOf(ChunkOf(u))
    THEN /\ u_pc' = [u_pc EXCEPT ![u] = "done", ![u + 1] = "l89"]
         /\ u_saw' = [u_saw EXCEPT ![u + 1] = {v \in Units : Exhausted(v)}]
         /\ c_state' = c_state
    ELSE /\ u_pc' = [u_pc EXCEPT ![u] = "done"]
         /\ u_saw' = u_saw
         /\ c_state' = [c_state EXCEPT ![ChunkOf(u)] = "ok"]

\* An exception leaves process_project_date for unit u: nothing in the
\* function catches it, mapstar stops, the rest of the chunk is not
\* called, and the worker puts the exception as the chunk's result.
Raise(u, e) ==
    /\ u_pc' = [u_pc EXCEPT ![u] = "raised"]
    /\ u_err' = [u_err EXCEPT ![u] = e]
    /\ c_state' = [c_state EXCEPT ![ChunkOf(u)] = "failed"]
    /\ u_saw' = u_saw

Step(u, name) == u_steps' = [u_steps EXCEPT ![u] = Append(@, name)]

\* Line 89: the f-string reads date_key.
Line89(u) ==
    /\ u_pc[u] = "l89"
    /\ IF "date_key" \in b_env
       THEN /\ u_pc' = [u_pc EXCEPT ![u] = "fetch"]
            /\ UNCHANGED <<u_err, c_state>>
       ELSE Raise(u, "NameError")
    /\ UNCHANGED <<b_env, b_n, main_pc, main_err, u_dir, u_art, u_tries, u_failed, u_up,
                   u_steps, u_saw, log>>
    /\ UNCHANGED <<varsPath, varsMerge, varsTiff, varsCores, varsList>>

\* Lines 93-100: the download, skipped when the local directory exists.
Fetch(u) ==
    /\ u_pc[u] = "fetch"
    /\ IF u_dir[u]
       THEN /\ u_pc' = [u_pc EXCEPT ![u] = "merge"]
            /\ UNCHANGED <<u_dir, u_err, c_state, u_steps, log>>
       ELSE /\ log' = log \cup {LogRec("Downloading", u, 0)}
            /\ \/ /\ u_dir' = [u_dir EXCEPT ![u] = TRUE]
                  /\ u_pc' = [u_pc EXCEPT ![u] = "merge"]
                  /\ Step(u, "fetch")
                  /\ UNCHANGED <<u_err, c_state>>
               \/ /\ Raise(u, "DownloadError")
                  /\ UNCHANGED <<u_dir, u_steps>>
    /\ UNCHANGED <<b_env, b_n, main_pc, main_err, u_art, u_tries, u_failed, u_up, u_saw>>
    /\ UNCHANGED <<varsPath, varsMerge, varsTiff, varsCores, varsList>>

\* Lines 102-106: the project shape, TiffConverter(dir) and
\* reproject_merge("EPSG:3857"); any of them may raise.
Merge(u) ==
    /\ u_pc[u] = "merge"
    /\ \/ /\ u_pc' = [u_pc EXCEPT ![u] = "crop"]
          /\ Step(u, "merge")
          /\ UNCHANGED <<u_err, c_state>>
       \/ /\ Raise(u, "PipelineError")
          /\ UNCHANGED u_steps
    /\ UNCHANGED <<b_env, b_n, main_pc, main_err, u_dir, u_art, u_tries, u_failed, u_up,
                   u_saw, log>>
    /\ UNCHANGED <<varsPath, varsMerge, varsTiff, varsCores, varsList>>

\* Line 107: tiff_data.clip_image_to_project(project).
Crop(u) ==
    /\ u_pc[u] = "crop"
    /\ IF "clip_image_to_project" \in b_env
       THEN /\ u_pc' = [u_pc EXCEPT ![u] = "stats"]
            /\ Step(u, "crop")
            /\ UNCHANGED <<u_err, c_state>>
       ELSE /\ Raise(u, "AttributeError")
            /\ UNCHANGED u_steps
    /\ UNCHANGED <<b_env, b_n, main_pc, main_err, u_dir, u_art, u_tries, u_failed, u_up,
                   u_saw, log>>
    /\ UNCHANGED <<varsPath, varsMerge, varsTiff, varsCores, varsList>>

\* Lines 109-113: the statistics files, then the "Uploading" record.
Stats(u) ==
    /\ u_pc[u] = "stats"
    /\ \/ /\ u_pc' = [u_pc EXCEPT ![u] = "upload"]
          /\ u_art' = [u_art EXCEPT ![u] = 1]
          /\ Step(u, "stats")
          /\ log' = log \cup {LogRec("Uploading", u, 0)}
          /\ UNCHANGED <<u_err, c_state>>
       \/ /\ Raise(u, "StatsError")
          /\ UNCHANGED <<u_art, u_steps, log>>
    /\ UNCHANGED <<b_env, b_n, main_pc, main_err, u_dir, u_tries, u_failed, u_up, u_saw>>
    /\ UNCHANGED <<varsPath, varsMerge, varsTiff, varsCores, varsList>>

\* The mutant of retry_call: one try more.
retry_call_off_by_one(made, ok) ==
    IF ok THEN "return" ELSE IF made < Tries + 1 THEN "retry" ELSE "raise"

\* @retry(tries=3, delay=2) around upload_to_s3, lines 72-75: what follows
\* the made-th try, which succeeded (ok) or raised.
retry_call(made, ok) ==
    IF ok THEN "return" ELSE IF made < Tries THEN "retry" ELSE "raise"

\* The mutant of try_upload_to_s3: no try/except.
try_upload_to_s3_uncaught(outcome) == outcome

\* try_upload_to_s3, lines 80-84: the exception of the last try is caught
\* and logged.
try_upload_to_s3(outcome) == IF outcome = "raise" THEN "logged" ELSE outcome

\* The mutant of after_upload: the purge follows the second upload.
after_upload_early(a) == IF a < NArtifacts - 1 THEN "upload" ELSE "rmdir"

\* Lines 115-120: the three upload calls, then the purge.
after_upload(a) == IF a < NArtifacts THEN "upload" ELSE "rmdir"

\* One try of the upload of unit u's current artifact.
UploadTry(u) ==
    /\ u_pc[u] = "upload"
    /\ \E ok \in BOOLEAN :
         LET a    == u_art[u]
             made == u_tries[u] + 1
             raw  == retry_call(made, ok)
             res  == try_upload_to_s3(raw)
         IN  /\ u_tries' = [u_tries EXCEPT ![u] = IF res = "retry" THEN made ELSE 0]
             /\ u_failed' = [u_failed EXCEPT ![u] = IF raw = "raise" THEN @ \cup {a} ELSE @]
             /\ u_up' = [u_up EXCEPT ![u] = IF ok THEN @ \cup {a} ELSE @]
             /\ log' = IF res = "logged"
                       THEN log \cup {LogRec("Couldn't upload", u, a)} ELSE log
             /\ IF res = "retry"
                THEN UNCHANGED <<u_pc, u_art, u_err, c_state, u_steps>>
                ELSE IF res = "raise"
                THEN Raise(u, "UploadError") /\ UNCHANGED <<u_art, u_steps>>
                ELSE /\ u_pc' = [u_pc EXCEPT ![u] = after_upload(a)]
                     /\ u_art' = [u_art EXCEPT ![u] = a + 1]
                     /\ Step(u, "upload")
                     /\ UNCHANGED <<u_err, c_state>>
    /\ UNCHANGED <<b_env, b_n, main_pc, main_err, u_dir, u_saw>>
    /\ UNCHANGED <<varsPath, varsMerge, varsTiff, varsCores, varsList>>

\* Lines 119-120: the "Purging" record and rmdir; the function returns.
Rmdir(u) ==
    /\ u_pc[u] = "rmdir"
    /\ log' = log \cup {LogRec("Purging", u, 0)}
    /\ u_dir' = [u_dir EXCEPT ![u] = FALSE]
    /\ Step(u, "rmdir")
    /\ Return(u)
    /\ UNCHANGED <<b_env, b_n, main_pc, main_err, u_art, u_tries, u_failed, u_up, u_err>>
    /\ UNCHANGED <<varsPath, varsMerge, varsTiff, varsCores, varsList>>

Finished(c) == c_state[c] \in {"ok", "failed"}

\* starmap's get(): the result is ready when every chunk's result is in.
\* It returns, and line 154 logs, or it re-raises a failed chunk's exception,
\* which leaves the with block and ends the script.
MainJoin ==
    /\ main_pc = "starmap"
    /\ \A c \in DOMAIN c_state : Finished(c)
    /\ IF \E c \in DOMAIN c_state : c_state[c] = "failed"
       THEN /\ main_pc' = "raised"
            /\ \E u \in Units : u_pc[u] = "raised" /\ main_err' = u_err[u]
            /\ log' = log
       ELSE /\ main_pc' = "done"
            /\ main_err' = main_err
            /\ log' = log \cup {LogRec("done for now", 0, 0)}
    /\ UNCHANGED <<b_env, b_n, c_state, u_pc, u_dir, u_art, u_tries, u_failed, u_up,
                   u_err, u_steps, u_saw>>
    /\ UNCHANGED <<varsPath, varsMerge, varsTiff, varsCores, varsList>>

(***************************************************************************)
(* SpecCores: n_cores(free) for the values os.cpu_count() may return.      *)
(***************************************************************************)
MaxCpu == 8

MaxFree == 4

DefaultFree == 1

\* os.cpu_count(): None, or the number of CPUs.
NoneCount == [known |-> FALSE, n |-> 0]

CpuCounts == {NoneCount} \cup {[known |-> TRUE, n |-> k] : k \in 0..MaxCpu}

CoresIdle ==
    /\ n_cpu = NoneCount
    /\ n_free = 0
    /\ n_called = FALSE
    /\ n_ret = 0

InitCores ==
    /\ n_cpu \in CpuCounts
    /\ n_free \in (0 - 1)..MaxFree
    /\ n_called = FALSE
    /\ n_ret = 0

Max(a, b) == IF a >= b THEN a ELSE b

\* The mutant of n_cores: without the max of line 42.
n_cores_no_floor(system_cores, free) ==
    IF ~system_cores.known \/ system_cores.n = 0 THEN 1 ELSE system_cores.n - free

\* TiffConverter.n_cores, lines 38-42; "not system_cores" holds of None and
\* of 0.
n_cores(system_cores, free) ==
    IF ~system_cores.known \/ system_cores.n = 0
    THEN 1
    ELSE Max(1, system_cores.n - free)

CallCores ==
    /\ ~n_called
    /\ n_called' = TRUE
    /\ n_ret' = n_cores(n_cpu, n_free)
    /\ UNCHANGED <<n_cpu, n_free>>
    /\ UNCHANGED <<varsPath, varsMerge, varsTiff, varsRun, varsList>>

(***************************************************************************)
(* SpecList: the main block of run.py up to the map, lines 124-152, over   *)
(* two buckets.  A bucket is the set of its object keys.  BucketRepository *)
(* is not part of the repository: find_directory_keys_by_key(prefix) is    *)
(* taken to list the directory keys directly below the prefix and          *)
(* find_object_keys_by_key(prefix) the object keys that start with it,     *)
(* both in key order.                                                      *)
(***************************************************************************)
MaxDates == 2

ProjectNames == <<<<"p">>, <<"q">>>>

DateNames == [i \in 1..MaxDates |-> <<<<"1", "2", "3", "4">>[i]>>]

ResultPrefix == <<"r", "e", "s", "u", "l", "t", "-">>

ClippedPrefix ==
    <<"s", "t", "i", "t", "c", "h", "e", "d", "_", "c", "l", "i", "p", "p", "e", "d">>

\* File names: one that starts with result-, one that only starts with
\* result; the clipped mosaic, and stitched.tif.
ResultFile == ResultPrefix \o <<"1">>

ResultsFile == <<"r", "e", "s", "u", "l", "t", "s">>

ClippedFile == ClippedPrefix \o <<".", "t", "i", "f">>

RawContents == {{}, {ResultsFile}, {ResultFile, ResultsFile}}

DestContents == {{}, {Stitched}, {ClippedFile, Stitched}}

AllUnits == {<<ProjectNames[i], DateNames[j]>> : i \in 1..Len(ProjectNames), j \in 1..MaxDates}

DirKey(u) == u[1] \o <<Slash>> \o u[2] \o <<Slash>>

BucketOf(c) == UNION {{DirKey(u) \o f : f \in c[u]} : u \in AllUnits}

ListIdle ==
    /\ s_raw = {}
    /\ s_dest = {}
    /\ s_pc = "idle"
    /\ s_downloaded = <<>>
    /\ s_processed = <<>>
    /\ s_to_process = <<>>
    /\ s_submitted = <<>>

InitList ==
    /\ \E c \in [AllUnits -> RawContents] : s_raw = BucketOf(c)
    /\ \E c \in [AllUnits -> DestContents] : s_dest = BucketOf(c)
    /\ s_pc = "start"
    /\ s_downloaded = <<>>
    /\ s_processed = <<>>
    /\ s_to_process = <<>>
    /\ s_submitted = <<>>

\* The mutant of StartsWith: every name passes.
StartsWithAnything(s, prefix) == TRUE

\* str.startswith
StartsWith(s, prefix) == Len(s) >= Len(prefix) /\ SubSeq(s, 1, Len(prefix)) = prefix

\* bucket.find_object_keys_by_key(prefix)
find_object_keys_by_key(bucket, prefix) == {k \in bucket : StartsWith(k, prefix)}

\* bucket.find_directory_keys_by_key(prefix); names lists, in key order, the
\* names a directory below the prefix may have.
find_directory_keys_by_key(bucket, prefix, names) ==
    SelectSeq([i \in 1..Len(names) |-> prefix \o names[i] \o <<Slash>>],
              LAMBDA d : find_object_keys_by_key(bucket, d) # {})

\* find_all_projects_from_bucket, line 41: i.split("/")[0]
find_all_projects_from_bucket(bucket) ==
    LET keys == find_directory_keys_by_key(bucket, <<>>, ProjectNames)
    IN  [i \in 1..Len(keys) |-> Split(keys[i], Slash)[1]]

\* project_dates_raw_sentinel_data, lines 48-58.
project_dates_raw_sentinel_data(bucket, project, if_filename_starts) ==
    LET project_dates == find_directory_keys_by_key(bucket, project \o <<Slash>>, DateNames)
        result_files(project_date) ==
            {f \in {Last(Split(k, Slash)) : k \in find_object_keys_by_key(bucket, project_date)} :
                StartsWith(f, if_filename_starts)}
        download_project_dates ==
            SelectSeq(project_dates, LAMBDA project_date : result_files(project_date) # {})
    IN  [i \in 1..Len(download_project_dates) |->
            Split(Front(download_project_dates[i]), Slash)]

\* The loops of lines 126-130 and 132-138: the lists of the projects,
\* extended one after the other.
RECURSIVE ExtendAll(_, _, _, _)
ExtendAll(bucket, projects, k, if_filename_starts) ==
    IF k > Len(projects) THEN <<>>
    ELSE project_dates_raw_sentinel_data(bucket, projects[k], if_filename_starts)
             \o ExtendAll(bucket, projects, k + 1, if_filename_starts)

\* Line 124: the projects are those of the source bucket.
Projects == find_all_projects_from_bucket(s_raw)

\* Lines 124-130.
ListDownloaded ==
    /\ s_pc = "start"
    /\ s_downloaded' = ExtendAll(s_raw, Projects, 1, ResultPrefix)
    /\ s_pc' = "downloaded"
    /\ UNCHANGED <<s_raw, s_dest, s_processed, s_to_process, s_submitted>>
    /\ UNCHANGED <<varsPath, varsMerge, varsTiff, varsRun, varsCores>>

\* Lines 132-138.
ListProcessed ==
    /\ s_pc = "downloaded"
    /\ s_processed' = ExtendAll(s_dest, Projects, 1, ClippedPrefix)
    /\ s_pc' = "processed"
    /\ UNCHANGED <<s_raw, s_dest, s_downloaded, s_to_process, s_submitted>>
    /\ UNCHANGED <<varsPath, varsMerge, varsTiff, varsRun, varsCores>>

\* Line 140.
FilterToProcess ==
    /\ s_pc = "processed"
    /\ s_to_process' = SelectSeq(s_downloaded, LAMBDA i : i \notin Range(s_processed))
    /\ s_pc' = "filtered"
    /\ UNCHANGED <<s_raw, s_dest, s_downloaded, s_processed, s_submitted>>
    /\ UNCHANGED <<varsPath, varsMerge, varsTiff, varsRun, varsCores>>

\* Lines 151-152: p.starmap(process_project_date, to_process_project_dates).
Submit ==
    /\ s_pc = "filtered"
    /\ s_submitted' = s_to_process
    /\ s_pc' = "submitted"
    /\ UNCHANGED <<s_raw, s_dest, s_downloaded, s_processed, s_to_process>>
    /\ UNCHANGED <<varsPath, varsMerge, varsTiff, varsRun, varsCores>>

vars == <<varsPath, varsMerge, varsTiff, varsRun, varsCores, varsList>>


InitSpecPath == InitPath /\ MergeIdle /\ TiffIdle /\ RunIdle /\ CoresIdle /\ ListIdle

NextPath == CallPath

SpecPath == InitSpecPath /\ [][NextPath]_vars

InitSpecMerge == PathIdle /\ InitMerge /\ TiffIdle /\ RunIdle /\ CoresIdle /\ ListIdle

NextMerge == MergeCall \/ MergeCopy \/ MergeWrite

SpecMerge == InitSpecMerge /\ [][NextMerge]_vars

InitSpecTiff == PathIdle /\ MergeIdle /\ InitTiff /\ RunIdle /\ CoresIdle /\ ListIdle

NextTiff ==
    \/ \E path \in CtorPaths : Construct(path)
    \/ \E dst_crs \in CRSs : ReprojectMerge(dst_crs)
    \/ ReprojectNext
    \/ MergeStep
    \/ \E dst_crs \in CRSs : DirectReproject(MissingPath, dst_crs)
    \/ DirectMerge(<<>>)

SpecTiff == InitSpecTiff /\ [][NextTiff]_vars

Init == PathIdle /\ MergeIdle /\ TiffIdle /\ InitRun /\ CoresIdle /\ ListIdle

Next ==
    \/ \E c \in DOMAIN c_state : TakeChunk(c)
    \/ \E u \in Units : Line89(u)
    \/ \E u \in Units : Fetch(u)
    \/ \E u \in Units : Merge(u)
    \/ \E u \in Units : Crop(u)
    \/ \E u \in Units : Stats(u)
    \/ \E u \in Units : UploadTry(u)
    \/ \E u \in Units : Rmdir(u)
    \/ MainJoin

Spec == Init /\ [][Next]_vars

\* Workers and the parent keep running and every external call ends: some
\* enabled step is eventually taken.
FairSpec == Spec /\ WF_vars(Next)

InitSpecCores == PathIdle /\ MergeIdle /\ TiffIdle /\ RunIdle /\ InitCores /\ ListIdle

NextCores == CallCores

SpecCores == InitSpecCores /\ [][NextCores]_vars

InitSpecList ==
    PathIdle /\ MergeIdle /\ TiffIdle /\ RunIdle /\ CoresIdle /\ InitList

NextList == ListDownloaded \/ ListProcessed \/ FilterToProcess \/ Submit

SpecList == InitSpecList /\ [][NextList]_vars

(***************************************************************************)
(* The claims.                                                             *)
(***************************************************************************)

\* C5 as stated: a merge on an empty path list (_merge_tiff_list([]), or
\* reproject_merge on a collection without a .tiff file) fails with
\* EmptyInputError and writes no output file.
C5_EmptyMergeFailsWithEmptyInputError ==
    (t_merge.err # "nocall" /\ t_merge.paths = <<>>)
        => (t_merge.err = "EmptyInputError" /\ t_merge.out = <<>> /\ t_merge.fsSame)

\* C5 amended: a merge on an empty path list fails with the IndexError of
\* paths[0], writes no output file and leaves the file system as it was.
C5_EmptyMergeFailsWithIndexError ==
    (t_merge.err # "nocall" /\ t_merge.paths = <<>>)
        => (t_merge.err = "IndexError" /\ t_merge.out = <<>> /\ t_merge.fsSame)

\* C5's case: reproject_merge ran on a collection without a .tiff file and
\* its merge step raised.
C5_Witness ==
    /\ t_obj.made /\ t_obj.tiff_files = <<>>
    /\ t_runs > 0 /\ t_pc = "idle"
    /\ t_merge.err = "IndexError" /\ t_merge.paths = <<>>

\* The directory of the last constructor call exists.
CtorDirExists == NodeAt(fs, Norm(t_new.path)).kind = "dir"

\* The regular files directly in it whose name ends in .tiff.
CtorMatching ==
    {n \in ListDir(fs, t_new.path) :
        /\ NodeAt(fs, Norm(t_new.path) \o <<n>>).kind \in {"raster", "other"}
        /\ Len(n) >= 5 /\ SubSeq(n, Len(n) - 4, Len(n)) = <<Dot>> \o TiffExt}

C7_FailedReprojectCreatesNoFile ==
    t_last.err \in {"RasterioIOError", "TransformError"} =>
        /\ t_last.dest = path_to_repojected_path(t_last.path, t_last.dst)
        /\ t_last.after = t_last.before

\* C7's case: a reprojection failed on the transform and there was no file
\* at the destination before the call.
C7_Witness ==
    /\ t_last.err = "TransformError"
    /\ t_last.before = Absent

\* The paths the running _reporject_raster_files call has appended.
Appended ==
    SubSeq(t_obj.reporjected_tiff_paths, t_base + 1, Len(t_obj.reporjected_tiff_paths))

LoopDone == t_pc = "reproject" /\ t_i > Len(t_obj.tiff_files)

\* C9: when the loop of _reporject_raster_files(dst_crs) has ended on a
\* collection of N tiles, it has appended exactly N paths, pairwise
\* distinct, the k-th being the destination of the k-th tile, and at each
\* there is a completely written raster whose CRS is dst_crs, whatever the
\* CRS of the tile was.
C9_EveryTileReprojected ==
    LoopDone =>
        /\ Len(Appended) = Len(t_obj.tiff_files)
        /\ Cardinality(Range(Appended)) = Len(t_obj.tiff_files)
        /\ \A k \in 1..Len(t_obj.tiff_files) :
             /\ Appended[k] = path_to_repojected_path(TilePaths[k], t_dst)
             /\ NodeAt(fs, Norm(Appended[k])) = RasterNode(t_dst, "ok", TRUE)

\* C9's case: the loop ended on two tiles of two CRSs, one of them already
\* in dst_crs.
C9_Witness ==
    /\ LoopDone
    /\ Len(t_obj.tiff_files) = 2
    /\ Range(t_obj.CRS_list) = CRSs
    /\ t_dst \in Range(t_obj.CRS_list)

\* The value the first tile of the list that is valid at l has there.
FirstValid(paths, l) ==
    IF \E i \in 1..Len(paths) : paths[i][l] # NoData
    THEN paths[CHOOSE i \in 1..Len(paths) :
                 paths[i][l] # NoData /\ \A j \in 1..(i - 1) : paths[j][l] = NoData][l]
    ELSE NoData

C10_SegmentInsertedBeforeFilename ==
    p_dest # NoDest =>
        /\ Split(p_dest, Slash)
             = Front(Split(p_path, Slash)) \o <<FilterAlnum(p_crs)>>
                   \o <<Last(Split(p_path, Slash))>>
        /\ \A q \in SeqsUpTo(PathChars, MaxPathLen) \ {<<>>} :
             (q # p_path /\ Front(Split(q, Slash)) = Front(Split(p_path, Slash)))
                 => path_to_repojected_path(q, p_crs) # p_dest


(***************************************************************************)
(* C1.  As claimed: a unit's failure is caught at the unit boundary and    *)
(* does not propagate, so the exception of a unit never becomes the        *)
(* result of its chunk and the parent's map never raises.                  *)
(***************************************************************************)
C1_UnitFailureCaughtAtBoundary ==
    /\ \A u \in Units : u_pc[u] = "raised" => c_state[ChunkOf(u)] # "failed"
    /\ main_pc # "raised"

(***************************************************************************)
(* C2.  An upload call makes at most Tries tries and stops at the first    *)
(* that succeeds; after the last failed try the exception is caught and    *)
(* logged and does not leave the unit, and the uploads of the remaining    *)
(* artifacts are still attempted.                                          *)
(***************************************************************************)
C2_UploadTriedAtMostThreeTimes ==
    \A u \in Units :
        /\ u_pc[u] = "upload" => u_tries[u] < Tries
        /\ \A a \in u_up[u] : u_art[u] > a /\ a \notin u_failed[u]
        /\ \A a \in u_failed[u] :
               /\ LogRec("Couldn't upload", u, a) \in log
               /\ u_art[u] > a
        /\ u_err[u] # "UploadError"
        /\ u_pc[u] \in {"rmdir", "done"} => u_up[u] \cup u_failed[u] = Artifacts

C2_Witness ==
    \E u \in Units :
        /\ u_pc[u] = "done"
        /\ 1 \in u_failed[u]
        /\ u_up[u] = {2, 3}

C4_PurgeAfterLastUploadReturns ==
    \A u \in Units :
        /\ u_art[u] = NArtifacts + 1 => u_pc[u] \in {"rmdir", "done"}
        /\ u_pc[u] \in {"rmdir", "done"} => u_art[u] = NArtifacts + 1
        /\ u_pc[u] = "upload" => u_dir[u]
        /\ u_pc[u] = "done" => ~u_dir[u] /\ LogRec("Purging", u, 0) \in log

C4_Witness ==
    \E u \in Units :
        /\ u_pc[u] = "done"
        /\ ~u_dir[u]
        /\ u_up[u] = {2}

(***************************************************************************)
(* C11.  On a constructed converter CRS_list has one entry per file of     *)
(* tiff_files, the CRS of that file, in the same order; CRS_set has no     *)
(* duplicates and holds exactly the values that occur in CRS_list.         *)
(***************************************************************************)
C11_CrsSetIsDistinctCrsList ==
    t_obj.made =>
        /\ Len(t_obj.CRS_list) = Len(t_obj.tiff_files)
        /\ \A i \in 1..Len(t_obj.tiff_files) :
             t_obj.CRS_list[i] = NodeAt(fs, Norm(TilePaths[i])).crs
        /\ Cardinality(Range(t_obj.CRS_set)) = Len(t_obj.CRS_set)
        /\ \A c \in CRSs :
             c \in Range(t_obj.CRS_set)
                 <=> \E i \in 1..Len(t_obj.tiff_files) :
                         NodeAt(fs, Norm(TilePaths[i])).crs = c

\* C11's case: two tiles of one CRS, which CRS_list holds twice and CRS_set
\* once.
C11_Witness ==
    /\ t_obj.made
    /\ Len(t_obj.tiff_files) = 2
    /\ t_obj.CRS_list[1] = t_obj.CRS_list[2]
    /\ Len(t_obj.CRS_set) = 1

(***************************************************************************)
(* C12.  n_cores(free) returns max(1, cpu_count - free) when the core      *)
(* count is known and not zero, and 1 when it is unknown or zero; the      *)
(* result is at least 1 and, with the default free on a machine of two or  *)
(* more cores, at most cpu_count - 1.                                      *)
(***************************************************************************)
C12_CoresAtLeastOne ==
    n_called =>
        /\ n_ret \in Int /\ n_ret >= 1
        /\ (n_cpu.known /\ n_cpu.n > 0) =>
               n_ret = (IF n_cpu.n - n_free > 1 THEN n_cpu.n - n_free ELSE 1)
        /\ (~n_cpu.known \/ n_cpu.n = 0) => n_ret = 1
        /\ (n_cpu.known /\ n_cpu.n >= 2 /\ n_free = DefaultFree) => n_ret <= n_cpu.n - 1

\* C12's case: more cores are to be left free than the machine has, and the
\* result is 1.
C12_Witness ==
    /\ n_called
    /\ n_cpu.known /\ n_cpu.n > 0
    /\ n_free > n_cpu.n
    /\ n_ret = 1

(***************************************************************************)
(* C13.  The phases are strictly ordered.  While reproject_merge runs the  *)
(* converter is constructed: its listing and CRS scan cover every tile.    *)
(* The merge step of reproject_merge is taken only when reproject_raster   *)
(* has returned, without an exception, for every tile of the collection    *)
(* in this call, and a step that reprojects a tile is never a merge step.  *)
(***************************************************************************)
C13_PhasesStrictlyOrdered ==
    /\ [](t_pc = "reproject" =>
              /\ t_obj.made
              /\ Len(t_obj.CRS_list) = Len(t_obj.tiff_files)
              /\ Range(t_obj.CRS_set) = Range(t_obj.CRS_list))
    /\ [][(t_pc = "reproject" /\ t_merge' # t_merge) =>
              /\ t_err = "none"
              /\ Len(t_obj.reporjected_tiff_paths) = t_base + Len(t_obj.tiff_files)
              /\ \A k \in 1..Len(t_obj.tiff_files) :
                   /\ t_obj.reporjected_tiff_paths[t_base + k]
                          = path_to_repojected_path(TilePaths[k], t_dst)
                   /\ NodeAt(fs, Norm(t_obj.reporjected_tiff_paths[t_base + k])).complete
              /\ t_last' = t_last]_vars
    /\ [][(t_pc = "reproject" /\ t_last' # t_last) => t_merge' = t_merge]_vars

\* C13's case: the merge step of reproject_merge ran on a collection of two
\* tiles.
C13_Witness ==
    /\ t_pc = "idle"
    /\ t_obj.made /\ Len(t_obj.tiff_files) = 2
    /\ t_merge.err = "none"
    /\ Len(t_merge.paths) >= 2

\* The steps of a unit, in the order of lines 98-120.
StepOrder(fetched) ==
    (IF fetched THEN <<"fetch">> ELSE <<>>)
        \o <<"merge", "crop", "stats", "upload", "upload", "upload", "rmdir">>

IsPrefix(q, r) == Len(q) <= Len(r) /\ SubSeq(r, 1, Len(q)) = q

(***************************************************************************)
(* C14.  As claimed: the steps a unit has performed are an initial part of *)
(* fetch (unless the local directory was there), reproject and merge,      *)
(* crop, statistics, three uploads, purge; a unit that returned performed  *)
(* them all, and only the failure of an external call ends a unit early.   *)
(***************************************************************************)
C14_UnitRunsAllStepsInOrder ==
    \A u \in Units :
        /\ \E fetched \in BOOLEAN : IsPrefix(u_steps[u], StepOrder(fetched))
        /\ u_pc[u] = "done" => \E fetched \in BOOLEAN : u_steps[u] = StepOrder(fetched)
        /\ u_pc[u] = "raised" => u_err[u] \in {"DownloadError", "PipelineError", "StatsError"}

\* The outputs of the tiles of the collection for the dst_crs of the last
\* reproject_merge call.
OutputsOfCall ==
    [k \in 1..Len(t_obj.tiff_files) |-> path_to_repojected_path(TilePaths[k], t_dst)]

(***************************************************************************)
(* C15.  As claimed: the list a reproject_merge call hands to the merge    *)
(* step is exactly the outputs of the tiles for the dst_crs of that call,  *)
(* one path per tile, and the mosaic is written to stitched.tif in the     *)
(* directory of those outputs.                                             *)
(***************************************************************************)
C15_RerunMergesOnlyItsOwnOutputs ==
    (t_merge.err # "nocall" /\ t_merge.paths # <<>>) =>
        /\ t_merge.paths = OutputsOfCall
        /\ Cardinality(Range(t_merge.paths)) = Len(t_merge.paths)
        /\ t_merge.err = "none" =>
               t_merge.out
                   = OsJoin(Join(Front(Split(OutputsOfCall[1], Slash)), Slash), Stitched)

(***************************************************************************)
(* C16.  Every reproject_raster call, returned or raised, appends its      *)
(* destination to reporjected_tiff_paths, exactly one entry; after a       *)
(* failed call the last entry of the list is a path at which that call     *)
(* wrote no complete file; and the merge step is handed the whole list,    *)
(* the paths of failed calls included.                                     *)
(***************************************************************************)
C16_DestinationAppendedBeforeOpen ==
    /\ [](t_last.err \notin {"nocall", "none"} =>
              /\ t_obj.reporjected_tiff_paths # <<>>
              /\ Last(t_obj.reporjected_tiff_paths) = t_last.dest
              /\ t_last.after = t_last.before \/ ~t_last.after.complete)
    /\ [][(t_last' # t_last /\ t_last'.err # "nocall") =>
              t_obj'.reporjected_tiff_paths
                  = Append(t_obj.reporjected_tiff_paths, t_last'.dest)]_vars
    /\ [][(t_pc = "reproject" /\ t_merge' # t_merge) =>
              t_merge'.paths = t_obj.reporjected_tiff_paths]_vars

\* C16's case: a merge was handed a list that holds the path of a failed
\* call, at which there is no raster, and raised.
C16_Witness ==
    /\ t_merge.err = "RasterioIOError"
    /\ \E i \in 1..Len(t_merge.paths) : NodeAt(fs, Norm(t_merge.paths[i])).kind = "absent"

(***************************************************************************)
(* C17.  Outputs never enter the input set.  At every moment, whatever     *)
(* reproject_merge runs were made, the tiff_files of the converter are     *)
(* exactly the regular files directly in the scanned directory whose name  *)
(* ends in .tiff, so that a converter built now on the directory sees the  *)
(* same files; a tile reprojected by reproject_merge goes to the           *)
(* subdirectory named after the CRS, and the mosaic is named stitched.tif, *)
(* which is no .tiff name.                                                 *)
(***************************************************************************)
C17_OutputsNeverEnterInputs ==
    t_obj.made =>
        /\ Range(t_obj.tiff_files) = CtorMatching
        /\ Len(t_obj.tiff_files) = Cardinality(CtorMatching)
        /\ (t_pc = "reproject" /\ t_last.err # "nocall") =>
               Norm(t_last.dest)
                   = Norm(t_obj.path)
                         \o <<FilterAlnum(t_last.dst), Last(Split(t_last.path, Slash))>>
        /\ t_merge.out # <<>> =>
               /\ Last(Split(t_merge.out, Slash)) = Stitched
               /\ ~IsTiff(Stitched)
               /\ Len(Norm(t_merge.out)) > Len(Norm(t_obj.path)) + 1

\* C17's case: a converter was built on a directory of two tiles after a
\* reproject_merge of an earlier converter had written its mosaic there.
C17_Witness ==
    /\ t_obj.made
    /\ t_ctors = 2
    /\ Len(t_obj.tiff_files) = 2
    /\ NodeAt(fs, Norm(t_obj.path) \o <<FilterAlnum(EPSG3857), Stitched>>).kind = "raster"
    /\ NodeAt(fs, Norm(t_obj.path) \o <<FilterAlnum(EPSG3857), NameA>>).kind = "raster"

\* The file names directly in the directory of unit u of a bucket.
FilesOf(bucket, u) ==
    {f \in {ResultFile, ResultsFile, ClippedFile, Stitched} : DirKey(u) \o f \in bucket}

\* Unit u has a result- file in the source bucket and no stitched_clipped
\* file in the destination bucket.
Eligible(u) == ResultFile \in FilesOf(s_raw, u) /\ ClippedFile \notin FilesOf(s_dest, u)

Occurrences(q, x) == Cardinality({i \in 1..Len(q) : q[i] = x})

(***************************************************************************)
(* C18.  The list handed to the pool holds nothing but (project, date)     *)
(* units; a unit is in it if and only if it has a file whose name starts   *)
(* with result- in the source bucket and no file whose name starts with    *)
(* stitched_clipped in the destination bucket, and then as often as it     *)
(* occurs in the downloaded list.                                          *)
(***************************************************************************)
C18_SubmitsExactlyUnprocessedUnits ==
    s_pc = "submitted" =>
        /\ Range(s_submitted) \subseteq AllUnits
        /\ \A u \in AllUnits :
             Occurrences(s_submitted, u)
                 = (IF Eligible(u) THEN Occurrences(s_downloaded, u) ELSE 0)
        /\ \A u \in AllUnits : Eligible(u) => Occurrences(s_submitted, u) = 1

\* C18's case: of three downloaded units one was submitted and one, already
\* processed, was not; a third directory without a result- file was not
\* either.
C18_Witness ==
    /\ s_pc = "submitted"
    /\ \E u, v, w \in AllUnits :
         /\ u \in Range(s_submitted)
         /\ v \in Range(s_downloaded) /\ v \in Range(s_processed)
         /\ v \notin Range(s_submitted)
         /\ FilesOf(s_raw, w) = {ResultsFile} /\ w \notin Range(s_submitted)

====
